---- MODULE Spec2Model ----
(***************************************************************************)
(* Model of streamlit_app.py: the humidity interpolation of                *)
(* get_weather_data / show_humidity_analysis and the enzyme dashboard of   *)
(* main (load, sidebar filters, efficiency ranking, correlation matrix).   *)
(*                                                                         *)
(* Numbers.  Humidity anchors are held in tenths of a percent (a climate   *)
(* table with at most one decimal place); the blend is computed in exact   *)
(* rational arithmetic (numerator, denominator) and rounded half-to-even   *)
(* to one decimal, which is what Series.round(1) does on the exact value.  *)
(* progress = (day-1)/(days_in_month-1) is compared with 0.2 and 0.8 by    *)
(* cross multiplication: the quotient of two integers below 31 is either   *)
(* exactly 1/5 (4/5), and then the correctly rounded double IS the literal *)
(* 0.2 (0.8), or it differs from it by far more than one ulp.              *)
(* Temperature and pH are held in tenths; Km, Vmax and molecular weight    *)
(* are small integers.                                                     *)
(***************************************************************************)
EXTENDS Integers, Sequences, FiniteSets, TLC

VARIABLES
    \* ---- humidity section ----
    climate_file,   \* climate_data.csv on disk: Missing or [cols, rows]
    cache,          \* st.cache_data slot of load_climate_data: Unset, None or a table
    now,            \* the wall clock datetime.now(): [year, month]
    ticks,          \* how many times the clock has moved to the next month
    wpc,            \* position inside get_weather_data: "idle", "year", "month"
    city,           \* get_weather_data argument
    country_code,   \* get_weather_data argument
    city_data,      \* rows selected at line 68, as row positions of the table
    current_month,  \* line 74
    year,           \* line 91
    calls,          \* finished get_weather_data calls: arguments, clock reads, return value
    hum_outcome,    \* how the last show_humidity_analysis run ended, "none" before the first
    \* ---- enzyme dashboard ----
    enzyme_file,    \* enzyme_dataset.tsv on disk: Missing or [cols, rows]
    df,             \* the loaded table (line 325), None before a successful load
    widgets,        \* sidebar values of the last run
    filtered_391,   \* filtered_df as it stands after line 391
    filtered_df,    \* filtered_df as tab5 (table, CSV, describe, corr) reads it
    top_efficient,  \* line 448
    corr_matrix,    \* line 549, None when not computed
    enz_outcome     \* how the last main run ended, "none" before the first

humVars == <<climate_file, cache, now, ticks, wpc, city, country_code, city_data,
             current_month, year, calls, hum_outcome>>
enzVars == <<enzyme_file, df, widgets, filtered_391, filtered_df, top_efficient,
             corr_matrix, enz_outcome>>
vars == <<humVars, enzVars>>

\* ------------------------------------------------------------------ bounds
MaxTicks == 2
MaxCalls == 2
MaxRows == 3

\* --------------------------------------------------------------- values
None == [isNone |-> TRUE]       \* Python's None
Unset == [unset |-> TRUE]       \* an empty st.cache_data slot
Missing == [missing |-> TRUE]   \* a file that is absent or that read_csv rejects

\* ------------------------------------------------------------- sequences
Range(s) == {s[i] : i \in DOMAIN s}

RECURSIVE SumSeq(_)
SumSeq(s) == IF s = <<>> THEN 0 ELSE Head(s) + SumSeq(Tail(s))

\* ============================================================ climate data
months == <<"Jan", "Feb", "Mar", "Apr", "May", "Jun",
            "Jul", "Aug", "Sep", "Oct", "Nov", "Dec">>

ClimateCols == {"City", "Country_Code", "Annual_Avg", "Latitude", "Longitude"}
                   \cup Range(months)

\* Two humidity profiles, Jan..Dec, in tenths of a percent.
ProfileA == <<400, 450, 500, 550, 600, 650, 700, 650, 600, 550, 500, 450>>
ProfileB == <<713, 688, 652, 601, 587, 554, 532, 561, 607, 655, 702, 725>>

ClimateRow(c, cc, p, avg) ==
    [City |-> c, Country_Code |-> cc, m |-> p,
     Annual_Avg |-> avg, Latitude |-> 0, Longitude |-> 0]

RowsPlain == << ClimateRow("London", "GB", ProfileA, 554),
                ClimateRow("New York", "US", ProfileB, 631) >>
\* A table in which one city name occurs under two country codes.
RowsTwoLondons == << ClimateRow("London", "GB", ProfileA, 554),
                     ClimateRow("London", "CA", ProfileB, 631),
                     ClimateRow("New York", "US", ProfileB, 631) >>

ClimateFiles ==
    { Missing,
      [cols |-> ClimateCols, rows |-> RowsPlain],
      [cols |-> ClimateCols, rows |-> RowsTwoLondons],
      [cols |-> ClimateCols \ {"Country_Code"}, rows |-> RowsPlain],
      [cols |-> ClimateCols \ {"Mar"}, rows |-> RowsPlain],
      [cols |-> ClimateCols \ {"Annual_Avg"}, rows |-> RowsPlain] }

\* The hard-coded selection lists of show_humidity_analysis (a part of them).
country_names == {"US", "GB"}
country_cities == [c \in country_names |->
                      IF c = "US" THEN {"New York", "Chicago"} ELSE {"London"}]

\* The clock values a session can start at.
StartClocks == [year : {2023, 2024}, month : 1..12]

\* ---------------------------------------------------------------- calendar
IsLeap(y) == (y % 4 = 0 /\ y % 100 # 0) \/ y % 400 = 0

\* calendar.monthrange(year, month)[1]
DaysInMonth(y, m) ==
    IF m = 2 THEN (IF IsLeap(y) THEN 29 ELSE 28)
    ELSE IF m \in {4, 6, 9, 11} THEN 30 ELSE 31

\* datetime(year, month, day).strftime('%Y-%m-%d'): the digits YYYYMMDD.
FormatDate(y, m, d) == y * 10000 + m * 100 + d

\* ------------------------------------------------------------ interpolation
\* round(x, 1) of the exact value n/d (tenths), d > 0, n >= 0: half to even.
Round1(n, d) ==
    LET q == n \div d
        r == n % d
    IN  IF 2 * r < d THEN q
        ELSE IF 2 * r > d THEN q + 1
        ELSE IF q % 2 = 0 THEN q ELSE q + 1

\* Mutant of Interpolate: the two weights of each blend exchanged.
InterpolateSwappedWeights(prev, cur, next, day, days_in_month) ==
    LET k == day - 1
        den == days_in_month - 1
    IN  IF 5 * k < den
          THEN <<prev * (5 * k) + cur * (den - 5 * k), den>>
        ELSE IF 5 * k > 4 * den
          THEN <<cur * (5 * k - 4 * den) + next * (5 * (den - k)), den>>
        ELSE <<cur, 1>>

\* Mutant of Interpolate: the blends start at 0.25 and 0.75 instead of 0.2 and 0.8.
InterpolateQuarterBlend(prev, cur, next, day, days_in_month) ==
    LET k == day - 1
        den == days_in_month - 1
    IN  IF 4 * k < den
          THEN <<prev * (den - 5 * k) + cur * (5 * k), den>>
        ELSE IF 4 * k > 3 * den
          THEN <<cur * (5 * (den - k)) + next * (5 * k - 4 * den), den>>
        ELSE <<cur, 1>>

\* Lines 97-105 for one row: the humidity of `day` as the fraction <<n, d>>.
\* progress = k/den; progress < 0.2 iff 5k < den; progress > 0.8 iff 5k > 4den;
\* (0.2 - progress)/0.2 = (den - 5k)/den, progress/0.2 = 5k/den,
\* (1 - progress)/0.2 = 5(den - k)/den, (progress - 0.8)/0.2 = (5k - 4den)/den.
Interpolate(prev, cur, next, day, days_in_month) ==
    LET k == day - 1
        den == days_in_month - 1
    IN  IF 5 * k < den
          THEN <<prev * (den - 5 * k) + cur * (5 * k), den>>
        ELSE IF 5 * k > 4 * den
          THEN <<cur * (5 * (den - k)) + next * (5 * k - 4 * den), den>>
        ELSE <<cur, 1>>

\* Mutant of NextMonth: no wrap after December.
NextMonthNoWrap(cm) == IF cm + 1 > 12 THEN 12 ELSE cm + 1

\* Lines 81-84: the 1-based month numbers of the previous / next anchor.
PrevMonth(cm) == IF cm - 1 > 0 THEN cm - 1 ELSE 12
NextMonth(cm) == ((cm - 1 + 1) % 12) + 1

\* Lines 82-84: prev_month_humidity, monthly_humidity and next_month_humidity,
\* each a Series with one element per row of city_data.
Anchors(rows, sel, cm) ==
    [prev |-> [i \in 1..Len(sel) |-> rows[sel[i]].m[PrevMonth(cm)]],
     cur |-> [i \in 1..Len(sel) |-> rows[sel[i]].m[cm]],
     next |-> [i \in 1..Len(sel) |-> rows[sel[i]].m[NextMonth(cm)]]]

\* Lines 87-107: daily_humidity, one Series per day; a Series has one element
\* per row of city_data (sel: row positions).  cm is the month read at line 74,
\* (y, m) the year and month read at lines 91-92.
DailyHumidity(rows, sel, cm, y, m) ==
    LET dim == DaysInMonth(y, m)
        Val(i, d) ==
            LET f == Interpolate(rows[sel[i]].m[PrevMonth(cm)], rows[sel[i]].m[cm],
                                 rows[sel[i]].m[NextMonth(cm)], d, dim)
            IN  Round1(f[1], f[2])
    IN  [d \in 1..dim |-> [i \in 1..Len(sel) |-> Val(i, d)]]

\* Mutant of Dates: the loop stops one day short, range(1, days_in_month).
DatesWithoutLastDay(y, m) == [d \in 1..(DaysInMonth(y, m) - 1) |-> FormatDate(y, m, d)]

\* Lines 88-108: dates.
Dates(y, m) == [d \in 1..DaysInMonth(y, m) |-> FormatDate(y, m, d)]

\* Mutant of WeatherDict: the two lists of lines 87-88 live outside the function
\* and keep the entries of the call before.
WeatherDictAccumulating(rows, sel, cm, y, m) ==
    LET before == IF calls # <<>> /\ calls[Len(calls)].ret # None
                    THEN calls[Len(calls)].ret
                    ELSE [daily_humidity |-> <<>>, dates |-> <<>>]
    IN  [current_humidity |-> [i \in 1..Len(sel) |-> Round1(rows[sel[i]].m[cm], 1)],
         daily_humidity |-> before.daily_humidity \o DailyHumidity(rows, sel, cm, y, m),
         dates |-> before.dates \o Dates(y, m),
         annual_average |-> [i \in 1..Len(sel) |-> rows[sel[i]].Annual_Avg],
         latitude |-> [i \in 1..Len(sel) |-> rows[sel[i]].Latitude],
         longitude |-> [i \in 1..Len(sel) |-> rows[sel[i]].Longitude]]

\* Lines 110-117: the returned dict.
WeatherDict(rows, sel, cm, y, m) ==
    [current_humidity |-> [i \in 1..Len(sel) |-> Round1(rows[sel[i]].m[cm], 1)],
     daily_humidity |-> DailyHumidity(rows, sel, cm, y, m),
     dates |-> Dates(y, m),
     annual_average |-> [i \in 1..Len(sel) |-> rows[sel[i]].Annual_Avg],
     latitude |-> [i \in 1..Len(sel) |-> rows[sel[i]].Latitude],
     longitude |-> [i \in 1..Len(sel) |-> rows[sel[i]].Longitude]]

\* load_climate_data, lines 50-57, behind st.cache_data: the value it returns.
LoadClimate == IF cache # Unset THEN cache
               ELSE IF climate_file = Missing THEN None ELSE climate_file

\* Line 68: climate_df[climate_df['City'] == city], as the positions, from i on
\* and in order, of the rows whose City equals c.
RECURSIVE CityPositions(_, _, _)
CityPositions(rows, c, i) ==
    IF i > Len(rows) THEN <<>>
    ELSE (IF rows[i].City = c THEN <<i>> ELSE <<>>) \o CityPositions(rows, c, i + 1)

SelectCity(rows, c) == CityPositions(rows, c, 1)

NoFrame == /\ city' = "" /\ country_code' = "" /\ city_data' = <<>>
           /\ current_month' = 0 /\ year' = 0

\* What is kept of one call of get_weather_data: its arguments, the rows of
\* city_data, the clock readings in the order made, the anchors of lines 82-84
\* (None when the call ended before them) and the value returned.
CallRecord(c, cc, sel, reads, anchors, ret) ==
    [city |-> c, country_code |-> cc, city_data |-> sel, reads |-> reads,
     anchors |-> anchors, ret |-> ret]

\* ------------------------------------------------------------------ actions
\* The clock moves to the next month, at any moment.
Tick ==
    /\ ticks < MaxTicks
    /\ ticks' = ticks + 1
    /\ now' = IF now.month = 12 THEN [year |-> now.year + 1, month |-> 1]
              ELSE [year |-> now.year, month |-> now.month + 1]
    /\ UNCHANGED <<climate_file, cache, wpc, city, country_code, city_data,
                   current_month, year, calls, hum_outcome, enzVars>>

\* show_humidity_analysis, lines 122-202, and with the button pressed the start
\* of get_weather_data, lines 59-84 (up to the first clock read).
ShowHumidityAnalysis(selected_country, selected_city, button) ==
    /\ wpc = "idle"
    /\ Len(calls) < MaxCalls
    /\ selected_city \in country_cities[selected_country]
    /\ LET climate_df == LoadClimate
       IN  /\ cache' = climate_df
           /\ IF climate_df = None
                THEN \* line 129-130: the error was shown by load_climate_data
                     /\ hum_outcome' = "reported"
                     /\ NoFrame /\ UNCHANGED <<wpc, calls>>
              ELSE IF ~({"Country_Code", "City"} \subseteq climate_df.cols)
                THEN \* lines 136, 144: KeyError outside any try
                     /\ hum_outcome' = "unhandled"
                     /\ NoFrame /\ UNCHANGED <<wpc, calls>>
              ELSE IF ~button
                THEN /\ hum_outcome' = "ok"
                     /\ NoFrame /\ UNCHANGED <<wpc, calls>>
              ELSE LET sel == SelectCity(climate_df.rows, selected_city)
                   IN  IF sel = <<>>
                         THEN \* lines 69-71
                              /\ hum_outcome' = "reported"
                              /\ calls' = Append(calls, CallRecord(selected_city,
                                     selected_country, sel, <<>>, None, None))
                              /\ NoFrame /\ UNCHANGED wpc
                       ELSE IF ~(Range(months) \subseteq climate_df.cols)
                         THEN \* line 78 raises KeyError after the read of line
                              \* 74; caught at line 118
                              /\ hum_outcome' = "reported"
                              /\ calls' = Append(calls, CallRecord(selected_city,
                                     selected_country, sel, <<now.month>>, None, None))
                              /\ NoFrame /\ UNCHANGED wpc
                       ELSE /\ city' = selected_city
                            /\ country_code' = selected_country
                            /\ city_data' = sel
                            /\ current_month' = now.month
                            /\ year' = 0
                            /\ wpc' = "year"
                            /\ UNCHANGED <<calls, hum_outcome>>
    /\ UNCHANGED <<climate_file, now, ticks, enzVars>>

\* Line 91: year = datetime.now().year
ReadYear ==
    /\ wpc = "year"
    /\ year' = now.year
    /\ wpc' = "month"
    /\ UNCHANGED <<climate_file, cache, now, ticks, city, country_code, city_data,
                   current_month, calls, hum_outcome, enzVars>>

\* Lines 92-120: month = datetime.now().month, the loop, the returned dict.
ReadMonthAndReturn ==
    /\ wpc = "month"
    /\ LET month == now.month
           reads == <<current_month, year, month>>
           ret == IF {"Annual_Avg", "Latitude", "Longitude"} \subseteq cache.cols
                    THEN WeatherDict(cache.rows, city_data, current_month, year, month)
                    ELSE None   \* KeyError at lines 114-116, caught at line 118
       IN  /\ calls' = Append(calls, CallRecord(city, country_code, city_data, reads,
                        Anchors(cache.rows, city_data, current_month), ret))
           /\ hum_outcome' = IF ret = None THEN "reported" ELSE "ok"
    /\ wpc' = "idle"
    /\ NoFrame
    /\ UNCHANGED <<climate_file, cache, now, ticks, enzVars>>

\* ========================================================= enzyme dashboard
\* The columns main reads (section 6 of the layout of enzyme_dataset.tsv).
EnzymeCols == {"Enzyme_Name", "Classification", "Organism", "Km_Value", "Vmax",
               "Temperature_Optimum", "pH_Optimum", "Molecular_Weight",
               "Substrate", "Product", "Application"}

\* The columns read inside the try block of lines 324-353.
TryCols == {"Classification", "Km_Value", "Temperature_Optimum"}

\* Line 543.
numeric_cols == <<"Km_Value", "Vmax", "Temperature_Optimum", "pH_Optimum",
                  "Molecular_Weight">>

\* nlargest(10, ...), line 448.
TopN == 10

Enzyme(cls, km, vmax, temp, ph, mw) ==
    [Classification |-> cls, Km_Value |-> km, Vmax |-> vmax,
     Temperature_Optimum |-> temp, pH_Optimum |-> ph, Molecular_Weight |-> mw]

\* The records tables are built from: temperature and pH in tenths.
EnzymePool == { Enzyme("Hydrolase", 2, 10, 370, 70, 3),
                Enzyme("Lyase", 0, 5, 370, 75, 2),
                Enzyme("Hydrolase", 4, 20, 360, 70, 1),
                Enzyme("Lyase", 1, 2, 375, 65, 3) }

\* A table's rows carry their pandas index label (the row position).
Indexed(recs) == [i \in 1..Len(recs) |-> [index |-> i] @@ recs[i]]

RECURSIVE SeqsUpTo(_, _)
SeqsUpTo(S, n) ==
    IF n = 0 THEN {<<>>}
    ELSE LET shorter == SeqsUpTo(S, n - 1)
         IN  shorter \cup {Append(q, x) : q \in {t \in shorter : Len(t) = n - 1}, x \in S}

Column(rows, col) == [i \in 1..Len(rows) |-> rows[i][col]]

RECURSIVE MinSeq(_)
MinSeq(s) == IF Len(s) = 1 THEN s[1]
             ELSE LET t == MinSeq(Tail(s)) IN IF s[1] < t THEN s[1] ELSE t
RECURSIVE MaxSeq(_)
MaxSeq(s) == IF Len(s) = 1 THEN s[1]
             ELSE LET t == MaxSeq(Tail(s)) IN IF s[1] > t THEN s[1] ELSE t

\* int(x) of a value held in tenths: truncation toward zero, in whole units.
IntOfTenths(x) == IF x >= 0 THEN x \div 10 ELSE -((-x) \div 10)

\* Lines 363-366: the bounds (and default value) of the temperature slider.
TempSliderMin(rows) == IntOfTenths(MinSeq(Column(rows, "Temperature_Optimum")))
TempSliderMax(rows) == IntOfTenths(MaxSeq(Column(rows, "Temperature_Optimum")))
\* Lines 369-373: float(min), float(max), in tenths.
PhSliderMin(rows) == MinSeq(Column(rows, "pH_Optimum"))
PhSliderMax(rows) == MaxSeq(Column(rows, "pH_Optimum"))
\* Line 378.
MwInputMax(rows) == MaxSeq(Column(rows, "Molecular_Weight"))

\* Tables whose sliders have min_value < max_value.
SlidersOk(rows) == /\ rows # <<>>
                   /\ TempSliderMin(rows) < TempSliderMax(rows)
                   /\ PhSliderMin(rows) < PhSliderMax(rows)

EnzymeTables == {Indexed(recs) : recs \in {q \in SeqsUpTo(EnzymePool, MaxRows) :
                                             SlidersOk(q)}}

BaseRows == Indexed(<< Enzyme("Hydrolase", 4, 20, 360, 70, 1),
                       Enzyme("Lyase", 1, 2, 375, 65, 3) >>)

\* A table with more rows than nlargest is asked for (12 > 10), every Km_Value
\* positive.  Vmax/Km, row by row: 5, 2, 9, 5, 7, 2, 3, 8, 2, 1, 6, 4.
ManyRows == Indexed(<< Enzyme("Hydrolase", 2, 10, 370, 70, 3),
                       Enzyme("Hydrolase", 1, 2, 360, 75, 2),
                       Enzyme("Hydrolase", 1, 9, 360, 70, 3),
                       Enzyme("Hydrolase", 4, 20, 370, 70, 2),
                       Enzyme("Hydrolase", 1, 7, 370, 75, 3),
                       Enzyme("Hydrolase", 2, 4, 360, 70, 2),
                       Enzyme("Hydrolase", 1, 3, 370, 70, 3),
                       Enzyme("Hydrolase", 1, 8, 370, 75, 2),
                       Enzyme("Hydrolase", 3, 6, 360, 70, 3),
                       Enzyme("Lyase", 1, 1, 370, 70, 2),
                       Enzyme("Hydrolase", 1, 6, 360, 75, 1),
                       Enzyme("Hydrolase", 1, 4, 370, 70, 3) >>)

EnzymeFiles ==
    {Missing}
      \cup {[cols |-> EnzymeCols, rows |-> t] : t \in EnzymeTables}
      \cup {[cols |-> EnzymeCols, rows |-> ManyRows]}
      \cup {[cols |-> EnzymeCols \ {c}, rows |-> BaseRows] : c \in EnzymeCols}

\* ------------------------------------------------------------------ sidebar
\* Line 359.
classifications(rows) == {"All"} \cup Range(Column(rows, "Classification"))

\* The values the sidebar can hand to the filter for table `rows`.
WidgetChoices(rows) ==
    LET phs == {v \in PhSliderMin(rows)..PhSliderMax(rows) :
                  (v - PhSliderMin(rows)) % 5 = 0} \cup {PhSliderMax(rows)}
        temps == TempSliderMin(rows)..TempSliderMax(rows)
    IN  { w \in [selected_class : classifications(rows),
                 temp_range : temps \X temps,
                 ph_range : phs \X phs,
                 mw_threshold : 0..MwInputMax(rows)] :
            /\ w.temp_range[1] <= w.temp_range[2]
            /\ w.ph_range[1] <= w.ph_range[2] }

\* The value each widget shows before the user touches it (lines 360-379).
DefaultWidgets(rows) ==
    [selected_class |-> "All",
     temp_range |-> <<TempSliderMin(rows), TempSliderMax(rows)>>,
     ph_range |-> <<PhSliderMin(rows), PhSliderMax(rows)>>,
     mw_threshold |-> 0]

\* ------------------------------------------------------------------- filter
\* frame[mask] keeps the rows whose mask is true, in order: SelectSeq.

\* Lines 384-385.
FilterClass(rows, selected_class) ==
    IF selected_class # "All"
      THEN LET Keep(r) == r.Classification = selected_class IN SelectSeq(rows, Keep)
      ELSE rows

\* Mutant of FilterTemp: the upper bound is exclusive.
FilterTempExclusive(rows, temp_range) ==
    LET Keep(r) == /\ r.Temperature_Optimum >= temp_range[1] * 10
                   /\ r.Temperature_Optimum < temp_range[2] * 10
    IN  SelectSeq(rows, Keep)

\* Lines 387-388: temp_range is in whole degrees, the column in tenths.
FilterTemp(rows, temp_range) ==
    LET Keep(r) == /\ r.Temperature_Optimum >= temp_range[1] * 10
                   /\ r.Temperature_Optimum <= temp_range[2] * 10
    IN  SelectSeq(rows, Keep)

\* Lines 389-390.
FilterPh(rows, ph_range) ==
    LET Keep(r) == r.pH_Optimum >= ph_range[1] /\ r.pH_Optimum <= ph_range[2]
    IN  SelectSeq(rows, Keep)

\* Line 391.
FilterMw(rows, mw_threshold) ==
    LET Keep(r) == r.Molecular_Weight >= mw_threshold IN SelectSeq(rows, Keep)

\* Lines 382-391.
ApplyFilters(rows, w) ==
    FilterMw(FilterPh(FilterTemp(FilterClass(rows, w.selected_class), w.temp_range),
                      w.ph_range), w.mw_threshold)

\* --------------------------------------------------------------- efficiency
\* Vmax / Km_Value as pandas divides two columns: a quotient, +-inf when only
\* the divisor is 0, NaN for 0/0.  No exception is raised.
Divide(vmax, km) ==
    IF km > 0 THEN [kind |-> "num", n |-> vmax, d |-> km]
    ELSE IF km < 0 THEN [kind |-> "num", n |-> -vmax, d |-> -km]
    ELSE IF vmax > 0 THEN [kind |-> "inf", n |-> 1, d |-> 0]
    ELSE IF vmax < 0 THEN [kind |-> "-inf", n |-> -1, d |-> 0]
    ELSE [kind |-> "nan", n |-> 0, d |-> 0]

\* a > b for two values that are not NaN.
Greater(a, b) ==
    IF a.kind = "inf" THEN b.kind # "inf"
    ELSE IF a.kind = "-inf" THEN FALSE
    ELSE IF b.kind = "inf" THEN FALSE
    ELSE IF b.kind = "-inf" THEN TRUE
    ELSE a.n * b.d > b.n * a.d

\* Line 447: filtered_df['Efficiency'] = filtered_df['Vmax'] / filtered_df['Km_Value']
\* assigns a new column of the frame filtered_df names.
AddEfficiency(frame) ==
    [cols |-> frame.cols \cup {"Efficiency"},
     rows |-> [i \in 1..Len(frame.rows) |->
                 frame.rows[i] @@ [Efficiency |->
                     Divide(frame.rows[i].Vmax, frame.rows[i].Km_Value)]]]

\* Descending, NaN last, equal values in their original order.
RECURSIVE InsertDesc(_, _)
InsertDesc(sorted, r) ==
    IF sorted = <<>> THEN <<r>>
    ELSE IF /\ r.Efficiency.kind # "nan"
            /\ \/ Head(sorted).Efficiency.kind = "nan"
               \/ Greater(r.Efficiency, Head(sorted).Efficiency)
      THEN <<r>> \o sorted
    ELSE <<Head(sorted)>> \o InsertDesc(Tail(sorted), r)

RECURSIVE SortDesc(_, _)
SortDesc(rows, acc) ==
    IF rows = <<>> THEN acc ELSE SortDesc(Tail(rows), InsertDesc(acc, Head(rows)))

\* Two values that are not NaN and of which neither is greater.
SameRank(a, b) == ~Greater(a, b) /\ ~Greater(b, a)

\* The sequences q with r put at a place from which only rows of r's value (and
\* no NaN) follow.
Placements(q, r) ==
    { SubSeq(q, 1, p) \o <<r>> \o SubSeq(q, p + 1, Len(q)) :
        p \in { p \in 0..Len(q) :
                  \A j \in (p + 1)..Len(q) :
                    /\ r.Efficiency.kind # "nan"
                    /\ q[j].Efficiency.kind # "nan"
                    /\ SameRank(q[j].Efficiency, r.Efficiency) } }

\* Every order of `sorted` (descending, NaN last) that differs from it only in
\* the order of rows of one value.
RECURSIVE TieOrders(_)
TieOrders(sorted) ==
    IF sorted = <<>> THEN {<<>>}
    ELSE UNION { Placements(q, sorted[Len(sorted)]) :
                   q \in TieOrders(SubSeq(sorted, 1, Len(sorted) - 1)) }

\* Series.sort_values(ascending=False) with its default kind='quicksort': the
\* orders it can return.  The values descend and NaN comes last; quicksort gives
\* no order to equal values (numpy sorts a short array by insertion in its
\* scalar code and by a sorting network in its SIMD code), so every order of
\* the rows of one value is an outcome.
SortValuesDesc(rows) == TieOrders(SortDesc(rows, <<>>))

\* Line 448: frame.nlargest(n, 'Efficiency'), keep='first': the frames it can
\* return.  pandas takes one of two paths.  With n >= len(frame) it returns
\* sort_values(ascending=False).head(n).  With n < len(frame) it selects the
\* rows down to the n-th largest value and orders them with
\* argsort(kind='mergesort') (equal values stay in frame order), then cuts at n.
NLargest(frame, n) ==
    IF n >= Len(frame.rows)
      THEN {[cols |-> frame.cols, rows |-> q] : q \in SortValuesDesc(frame.rows)}
      ELSE {[cols |-> frame.cols, rows |-> SubSeq(SortDesc(frame.rows, <<>>), 1, n)]}

\* -------------------------------------------------------------- correlation
\* Mutant of Pearson: an undefined correlation is filled with 0.
PearsonNanAsZero(xs, ys) ==
    LET n == Len(xs)
        ssx == n * SumSeq([i \in 1..n |-> xs[i] * xs[i]]) - SumSeq(xs) * SumSeq(xs)
        ssy == n * SumSeq([i \in 1..n |-> ys[i] * ys[i]]) - SumSeq(ys) * SumSeq(ys)
        cov == n * SumSeq([i \in 1..n |-> xs[i] * ys[i]]) - SumSeq(xs) * SumSeq(ys)
    IN  IF ssx * ssy # 0
          THEN [nan |-> FALSE, cov |-> cov, ssx |-> ssx, ssy |-> ssy]
          ELSE [nan |-> FALSE, cov |-> 0, ssx |-> 1, ssy |-> 1]

\* Pearson's r of two columns over n rows, kept as the three sums it is the
\* quotient of: r = cov / sqrt(ssx * ssy), with cov = n*Sxy - Sx*Sy,
\* ssx = n*Sxx - Sx^2, ssy = n*Syy - Sy^2; NaN when the divisor is 0.
Pearson(xs, ys) ==
    LET n == Len(xs)
        ssx == n * SumSeq([i \in 1..n |-> xs[i] * xs[i]]) - SumSeq(xs) * SumSeq(xs)
        ssy == n * SumSeq([i \in 1..n |-> ys[i] * ys[i]]) - SumSeq(ys) * SumSeq(ys)
        cov == n * SumSeq([i \in 1..n |-> xs[i] * ys[i]]) - SumSeq(xs) * SumSeq(ys)
    IN  IF ssx * ssy # 0
          THEN [nan |-> FALSE, cov |-> cov, ssx |-> ssx, ssy |-> ssy]
          ELSE [nan |-> TRUE, cov |-> 0, ssx |-> 0, ssy |-> 0]

\* Whether a correlation entry is the number 1.0.
IsOne(e) == ~e.nan /\ e.cov > 0 /\ e.cov * e.cov = e.ssx * e.ssy

\* Lines 547-549: filtered_df[numeric_cols].corr(), only with more than one row.
Corr(frame) ==
    IF Len(frame.rows) > 1
      THEN [a \in Range(numeric_cols) |-> [b \in Range(numeric_cols) |->
               Pearson(Column(frame.rows, a), Column(frame.rows, b))]]
      ELSE None

\* ----------------------------------------------------------------------- main
NoResults == /\ widgets' = None /\ filtered_391' = None /\ filtered_df' = None
             /\ top_efficient' = None /\ corr_matrix' = None

\* One run of main, lines 291-556, for the sidebar values w.
Main(w) ==
    /\ enz_outcome = "none"
    /\ IF enzyme_file = Missing
         THEN \* line 325 raises; lines 350-353 report it and return
              /\ df' = None /\ enz_outcome' = "reported" /\ NoResults
       ELSE IF ~(TryCols \subseteq enzyme_file.cols)
         THEN \* KeyError at lines 337-347, inside the try
              /\ df' = None /\ enz_outcome' = "reported" /\ NoResults
       ELSE IF ~(EnzymeCols \subseteq enzyme_file.cols)
         THEN \* KeyError (pH_Optimum at line 370, Molecular_Weight at line 378,
              \* the others in the tabs): no try encloses these lines
              /\ df' = enzyme_file /\ enz_outcome' = "unhandled" /\ NoResults
       ELSE /\ w \in WidgetChoices(enzyme_file.rows)
            /\ df' = enzyme_file
            /\ widgets' = w
            /\ LET at391 == [cols |-> enzyme_file.cols,
                             rows |-> ApplyFilters(enzyme_file.rows, w)]
                   at447 == AddEfficiency(at391)
               IN  /\ filtered_391' = at391
                   /\ filtered_df' = at447
                   /\ top_efficient' \in NLargest(at447, TopN)
                   /\ corr_matrix' = Corr(at447)
            /\ enz_outcome' = "ok"
    /\ UNCHANGED <<enzyme_file, humVars>>

\* A widget interaction: Streamlit runs the script again from the top, and every
\* local of the previous run of main is gone.
Rerun ==
    /\ enz_outcome # "none"
    /\ df' = None /\ NoResults /\ enz_outcome' = "none"
    /\ UNCHANGED <<enzyme_file, humVars>>

\* The sidebar values a run can be made with: any the widgets offer, or none
\* when the run ends before the sidebar is built.
RunChoices ==
    IF enzyme_file # Missing /\ EnzymeCols \subseteq enzyme_file.cols
      THEN WidgetChoices(enzyme_file.rows) ELSE {None}

\* ============================================================= specifications
\* The state before the first run of either section.
HumIdle ==
    /\ cache = Unset /\ ticks = 0 /\ wpc = "idle"
    /\ city = "" /\ country_code = "" /\ city_data = <<>>
    /\ current_month = 0 /\ year = 0
    /\ calls = <<>> /\ hum_outcome = "none"

EnzIdle ==
    /\ df = None /\ widgets = None /\ filtered_391 = None /\ filtered_df = None
    /\ top_efficient = None /\ corr_matrix = None /\ enz_outcome = "none"

\* The humidity section alone: any climate file, any starting month.
InitHumidity ==
    /\ climate_file \in ClimateFiles
    /\ now \in StartClocks
    /\ HumIdle
    /\ enzyme_file = Missing /\ EnzIdle

NextHumidity ==
    \/ Tick
    \/ \E selected_country \in country_names :
         \E selected_city \in country_cities[selected_country] :
           \E button \in BOOLEAN :
             ShowHumidityAnalysis(selected_country, selected_city, button)
    \/ ReadYear
    \/ ReadMonthAndReturn

SpecHumidity == InitHumidity /\ [][NextHumidity]_vars

\* The dashboard alone: any enzyme file; the humidity section stays idle.
InitDashboard ==
    /\ enzyme_file \in EnzymeFiles
    /\ EnzIdle
    /\ climate_file = Missing /\ now = [year |-> 2023, month |-> 1] /\ HumIdle

NextDashboard ==
    \/ \E w \in RunChoices : Main(w)
    \/ Rerun

SpecDashboard == InitDashboard /\ [][NextDashboard]_vars

\* ================================================================== claims
\* ---- humidity section (checked under SpecHumidity) ----

\* C1: in every daily series get_weather_data returns, day 1 holds the anchor
\* of the month before the anchor month and the last day holds the anchor of
\* the month after it, each rounded to one decimal (December and January wrap).
C1_EndpointsAreNeighbourAnchors ==
    \A k \in 1..Len(calls) :
      calls[k].ret # None =>
        LET cm == calls[k].reads[1]
            daily == calls[k].ret.daily_humidity
        IN  \A i \in 1..Len(calls[k].city_data) :
              LET anchors == climate_file.rows[calls[k].city_data[i]].m
              IN  /\ daily[1][i] = Round1(anchors[IF cm = 1 THEN 12 ELSE cm - 1], 1)
                  /\ daily[Len(daily)][i] =
                         Round1(anchors[IF cm = 12 THEN 1 ELSE cm + 1], 1)

\* A December series was returned whose first and last day differ.
C1_Witness ==
    \E k \in 1..Len(calls) :
      /\ calls[k].ret # None
      /\ calls[k].reads[1] = 12
      /\ LET daily == calls[k].ret.daily_humidity
         IN  daily[1] # daily[Len(daily)]

\* C2: every day d with 0.2 <= (d-1)/(days-1) <= 0.8, the two ends included,
\* holds the anchor month's own value rounded to one decimal.
C2_MiddleIsCurrentAnchor ==
    \A k \in 1..Len(calls) :
      calls[k].ret # None =>
        LET cm == calls[k].reads[1]
            daily == calls[k].ret.daily_humidity
            den == Len(daily) - 1
        IN  \A d \in 1..Len(daily) :
              (5 * (d - 1) >= den /\ 5 * (d - 1) <= 4 * den) =>
                \A i \in 1..Len(calls[k].city_data) :
                  daily[d][i] =
                      Round1(climate_file.rows[calls[k].city_data[i]].m[cm], 1)

\* A 31-day series was returned (day 7 is at progress 0.2 exactly, day 25 at
\* 0.8 exactly) whose days 1, 7, 25 and 31 show blending at the ends only.
C2_Witness ==
    \E k \in 1..Len(calls) :
      /\ calls[k].ret # None
      /\ LET daily == calls[k].ret.daily_humidity
         IN  /\ Len(daily) = 31
             /\ daily[7] = daily[25]
             /\ daily[6] # daily[7]
             /\ daily[26] # daily[25]

\* What C8 compares of two return values: the dates and the humidity values.
SameSeries(a, b) ==
    IF a = None \/ b = None THEN a = b
    ELSE a.dates = b.dates /\ a.daily_humidity = b.daily_humidity

\* C8 as stated: two calls with the same city and country code (the loaded
\* table is the same throughout a session) return the same dates and values.
C8_PureInCityAndCountry ==
    \A j, k \in 1..Len(calls) :
      (calls[j].city = calls[k].city /\ calls[j].country_code = calls[k].country_code)
        => SameSeries(calls[j].ret, calls[k].ret)

\* C8, amended: two calls with the same city, the same country code and the
\* same three clock readings return the same dates and values.
C8_PureGivenTheClockReadings ==
    \A j, k \in 1..Len(calls) :
      (/\ calls[j].city = calls[k].city
       /\ calls[j].country_code = calls[k].country_code
       /\ calls[j].reads = calls[k].reads)
        => SameSeries(calls[j].ret, calls[k].ret)

\* Two calls were made with the same arguments and clock readings, and both
\* returned a series.
C8_Witness ==
    \E j, k \in 1..Len(calls) :
      /\ j < k
      /\ calls[j].city = calls[k].city
      /\ calls[j].country_code = calls[k].country_code
      /\ calls[j].reads = calls[k].reads
      /\ calls[k].ret # None

\* C9: the rows a call works on are those of the one profile whose city and
\* country code both equal the arguments.
C9_OnlyTheMatchingProfile ==
    \A k \in 1..Len(calls) :
      /\ Len(calls[k].city_data) <= 1
      /\ \A i \in 1..Len(calls[k].city_data) :
           LET row == climate_file.rows[calls[k].city_data[i]]
           IN  row.City = calls[k].city /\ row.Country_Code = calls[k].country_code

\* The days of month m of year y, from the calendar.
CalendarDays(y, m) ==
    <<31, 28, 31, 30, 31, 30, 31, 31, 30, 31, 30, 31>>[m]
      + (IF m = 2 /\ y % 4 = 0 /\ (y % 100 # 0 \/ y % 400 = 0) THEN 1 ELSE 0)

\* C12: a returned series for the year and month read at lines 91-92 has one
\* entry per calendar day of that month, as many dates as humidity entries,
\* the d-th date being day d of that month, dates increasing.
C12_OneEntryPerCalendarDay ==
    \A k \in 1..Len(calls) :
      calls[k].ret # None =>
        LET y == calls[k].reads[2]
            m == calls[k].reads[3]
            dates == calls[k].ret.dates
            daily == calls[k].ret.daily_humidity
        IN  /\ Len(daily) = CalendarDays(y, m)
            /\ Len(dates) = Len(daily)
            /\ \A d \in 1..Len(dates) : dates[d] = y * 10000 + m * 100 + d
            /\ \A d \in 1..(Len(dates) - 1) : dates[d] < dates[d + 1]

\* A series was returned for February of a leap year: 29 entries, the last one
\* dated the 29th.
C12_Witness ==
    \E k \in 1..Len(calls) :
      /\ calls[k].ret # None
      /\ calls[k].reads[2] = 2024 /\ calls[k].reads[3] = 2
      /\ Len(calls[k].ret.daily_humidity) = 29
      /\ calls[k].ret.dates[29] = 20240229

\* C13: the anchors of a call are taken from the profile of its own row: the
\* current anchor is the value of the month read at line 74, the previous
\* anchor the value of the month before it (December for January), the next
\* anchor the value of the month after it (January for December).
C13_AnchorsWrapAroundTheYear ==
    \A k \in 1..Len(calls) :
      calls[k].anchors # None =>
        LET cm == calls[k].reads[1]
        IN  \A i \in 1..Len(calls[k].city_data) :
              LET profile == climate_file.rows[calls[k].city_data[i]].m
              IN  /\ calls[k].anchors.cur[i] = profile[cm]
                  /\ calls[k].anchors.prev[i] =
                         (IF cm = 1 THEN profile[12] ELSE profile[cm - 1])
                  /\ calls[k].anchors.next[i] =
                         (IF cm = 12 THEN profile[1] ELSE profile[cm + 1])

\* One session made a call in December and a call in January for the same
\* city: the next anchor of the first is the current anchor of the second, and
\* the previous anchor of the second the current anchor of the first.
C13_Witness ==
    \E j, k \in 1..Len(calls) :
      /\ calls[j].anchors # None /\ calls[k].anchors # None
      /\ calls[j].reads[1] = 12 /\ calls[k].reads[1] = 1
      /\ calls[j].city = calls[k].city
      /\ calls[j].anchors.next = calls[k].anchors.cur
      /\ calls[k].anchors.prev = calls[j].anchors.cur
      /\ calls[j].anchors.next # calls[j].anchors.prev

\* The month the clock showed j months before the month c.
RECURSIVE MonthsBack(_, _)
MonthsBack(c, j) ==
    IF j = 0 THEN c
    ELSE MonthsBack(IF c.month = 1 THEN [year |-> c.year - 1, month |-> 12]
                    ELSE [year |-> c.year, month |-> c.month - 1], j - 1)

\* The calendar months the clock has shown since the session began.
ShownMonths == {MonthsBack(now, j) : j \in 0..ticks}

\* C14: in every call that returned a series, also when the clock moved
\* between its three readings, the month whose anchors are blended (line 74) is
\* the month of the day count and the dates (line 92), and that month with the
\* year of line 91 is a calendar month the clock showed.
C14_ReadsDenoteOneShownMonth ==
    \A k \in 1..Len(calls) :
      calls[k].ret # None =>
        /\ calls[k].reads[1] = calls[k].reads[3]
        /\ [year |-> calls[k].reads[2], month |-> calls[k].reads[3]] \in ShownMonths

\* ---- enzyme dashboard (checked under SpecDashboard) ----

\* The four predicates of the sidebar, all at once, on one record.
Satisfies(r, w) ==
    /\ w.selected_class = "All" \/ r.Classification = w.selected_class
    /\ w.temp_range[1] * 10 <= r.Temperature_Optimum
    /\ r.Temperature_Optimum <= w.temp_range[2] * 10
    /\ w.ph_range[1] <= r.pH_Optimum
    /\ r.pH_Optimum <= w.ph_range[2]
    /\ r.Molecular_Weight >= w.mw_threshold

\* C3: the filter returns exactly the records that satisfy the four predicates
\* (range bounds included), each once, unchanged, in their original order.
C3_FilterIsExact ==
    enz_outcome = "ok" =>
      LET out == filtered_391.rows
      IN  /\ \A j \in 1..Len(out) :
               /\ out[j].index \in 1..Len(df.rows)
               /\ out[j] = df.rows[out[j].index]
               /\ Satisfies(out[j], widgets)
          /\ \A j, k \in 1..Len(out) : j < k => out[j].index < out[k].index
          /\ \A i \in 1..Len(df.rows) :
               Satisfies(df.rows[i], widgets) => \E j \in 1..Len(out) : out[j].index = i

\* A run kept a record whose temperature equals the upper bound and one whose
\* temperature equals the lower bound, and dropped another record.
C3_Witness ==
    /\ enz_outcome = "ok"
    /\ Len(filtered_391.rows) < Len(df.rows)
    /\ \E j, k \in 1..Len(filtered_391.rows) :
         /\ filtered_391.rows[j].Temperature_Optimum = widgets.temp_range[2] * 10
         /\ filtered_391.rows[k].Temperature_Optimum = widgets.temp_range[1] * 10
         /\ j # k

\* C4: with every widget at its default the filter returns the whole table.
C4_DefaultsKeepEverything ==
    (enz_outcome = "ok" /\ widgets = DefaultWidgets(df.rows))
      => filtered_391.rows = df.rows

\* C5: no record with Km = 0 is among the top-efficient records.
C5_ZeroKmExcluded ==
    enz_outcome = "ok" =>
      \A j \in 1..Len(top_efficient.rows) : top_efficient.rows[j].Km_Value # 0

\* C6: a missing file, or a file that lacks a required column, ends the run in
\* a reported error, for the enzyme table and for the climate table.
C6_LoadFailuresAreReported ==
    /\ (enz_outcome # "none" /\
          (enzyme_file = Missing \/ ~(EnzymeCols \subseteq enzyme_file.cols)))
         => enz_outcome = "reported"
    /\ (hum_outcome # "none" /\ wpc = "idle" /\
          (climate_file = Missing \/ ~(ClimateCols \subseteq climate_file.cols)))
         => hum_outcome = "reported"

\* C7: after the efficiency computation the loaded table is what was loaded and
\* every record of the filtered set that tab5 reads has exactly the fields and
\* values it had before it.
C7_NothingWrittenBack ==
    enz_outcome = "ok" =>
      /\ df = enzyme_file
      /\ Len(filtered_df.rows) = Len(filtered_391.rows)
      /\ \A j \in 1..Len(filtered_df.rows) : filtered_df.rows[j] = filtered_391.rows[j]

\* The run ranked a filtered set in which every Km_Value is positive.
AllKmPositive ==
    /\ enz_outcome = "ok"
    /\ \A i \in 1..Len(filtered_df.rows) : filtered_df.rows[i].Km_Value > 0

\* The top-efficient selection holds records of the filtered set only, each at
\* most once, min(10, |R|) of them, no record left out has a greater Vmax/Km
\* than a record kept, and Vmax/Km does not increase along the selection.
RankedSelection ==
    LET R == filtered_df.rows
        top == top_efficient.rows
    IN  /\ Len(top) = (IF TopN < Len(R) THEN TopN ELSE Len(R))
        /\ \A j \in 1..Len(top) : \E i \in 1..Len(R) : top[j] = R[i]
        /\ \A j, k \in 1..Len(top) : j < k => top[j] # top[k]
        /\ \A j, k \in 1..Len(top) :
             j < k => ~Greater(top[k].Efficiency, top[j].Efficiency)
        /\ \A i \in 1..Len(R) :
             (\A j \in 1..Len(top) : top[j] # R[i]) =>
               \A j \in 1..Len(top) : ~Greater(R[i].Efficiency, top[j].Efficiency)

\* Records of equal Vmax/Km stand in the selection in their order in the table.
TiesInOriginalOrder ==
    LET top == top_efficient.rows
    IN  \A j, k \in 1..Len(top) :
          (j < k /\ SameRank(top[j].Efficiency, top[k].Efficiency))
            => top[j].index < top[k].index

ColumnValues(c) == Range(Column(filtered_df.rows, c))

\* C10 as stated: with more than one filtered record every diagonal entry of
\* the correlation matrix is 1.0.
C10_DiagonalIsOne ==
    (enz_outcome = "ok" /\ Len(filtered_df.rows) > 1) =>
      /\ corr_matrix # None
      /\ \A c \in Range(numeric_cols) : IsOne(corr_matrix[c][c])

\* C10, amended: with more than one filtered record the matrix is computed, and
\* its diagonal entry is 1.0 for a column with at least two distinct values and
\* NaN for a column with the same value in every filtered record.
C10_DiagonalIsOneOrNaN ==
    (enz_outcome = "ok" /\ Len(filtered_df.rows) > 1) =>
      /\ corr_matrix # None
      /\ \A c \in Range(numeric_cols) :
           IF Cardinality(ColumnValues(c)) > 1
             THEN IsOne(corr_matrix[c][c])
             ELSE corr_matrix[c][c].nan

\* A matrix was computed over a set with one constant and one varying column.
C10_Witness ==
    /\ enz_outcome = "ok"
    /\ corr_matrix # None
    /\ \E c, e \in Range(numeric_cols) :
         Cardinality(ColumnValues(c)) = 1 /\ Cardinality(ColumnValues(e)) > 1

====
